---- MODULE Spec2Model ----
(***************************************************************************)
(* Admin authorization resolution of the 5thvital admin dashboard.         *)
(*                                                                         *)
(* The module models checkAdmin() in its two generations:                  *)
(*   "two_store"    : user_roles (primary) then admins (legacy), then the  *)
(*                    allowlist bootstrap                                  *)
(*   "single_store" : lib/auth/requireAdmin.ts, admins table only          *)
(* Every await of the function is one action; the synchronous code up to   *)
(* the next await (or return) belongs to the action of the await before.   *)
(*                                                                         *)
(* Strings whose content is transformed by the code (e-mail addresses,     *)
(* the ADMIN_ALLOWED_EMAILS value) are sequences of one-character strings, *)
(* so that split / trim / toLowerCase are computed, not assumed.           *)
(***************************************************************************)
EXTENDS Integers, Sequences, FiniteSets, TLC

(***************************************************************************)
(* Bounds of the model                                                     *)
(***************************************************************************)
\* number of request slots that call checkAdmin
MaxCalls == 1
\* largest number of role records held by the two stores together
MaxRecords == 2
\* number of executions that run interleaved
MaxConcurrent == 2
\* largest number of store writes that overlap one execution
MaxWrites == 2
\* largest used_count a coupon reaches
MaxUses == 1

Calls == 1..MaxCalls

Executions == 1..MaxConcurrent

\* principals known to the identity provider
UserIds == {"u1", "u2"}

(***************************************************************************)
(* Strings as character sequences                                          *)
(***************************************************************************)
EmailA == <<"a", "@", "x">>
EmailAUpper == <<"A", "@", "X">>
EmailB == <<"b", "@", "x">>

\* user.email values a session can carry; <<>> stands for a missing or
\* empty e-mail (both are falsy for `!user.email`)
SessionEmails == {<<>>, EmailA, EmailAUpper, EmailB}

\* values of process.env.ADMIN_ALLOWED_EMAILS; <<>> is unset or ""
AllowedEmailsEnvValues ==
    { <<>>,
      EmailA,
      <<" ">> \o EmailAUpper \o <<" ">>,
      EmailA \o <<",">> \o EmailB,
      <<",", " ">> }

LowerChar(ch) ==
    CASE ch = "A" -> "a"
      [] ch = "B" -> "b"
      [] ch = "X" -> "x"
      [] OTHER -> ch

UpperChar(ch) ==
    CASE ch = "s" -> "S"
      [] ch = "z" -> "Z"
      [] OTHER -> ch

\* String.prototype.toUpperCase
ToUpperCase(s) == [i \in 1..Len(s) |-> UpperChar(s[i])]

\* String.prototype.toLowerCase
ToLowerCase(s) == [i \in 1..Len(s) |-> LowerChar(s[i])]

RECURSIVE TrimStart(_)
TrimStart(s) ==
    IF s # <<>> /\ Head(s) = " " THEN TrimStart(Tail(s)) ELSE s

RECURSIVE TrimEnd(_)
TrimEnd(s) ==
    IF s # <<>> /\ s[Len(s)] = " " THEN TrimEnd(SubSeq(s, 1, Len(s) - 1)) ELSE s

\* String.prototype.trim
Trim(s) == TrimEnd(TrimStart(s))

\* String.prototype.split(","): "" splits into [""]
RECURSIVE Split(_)
Split(s) ==
    IF \E i \in 1..Len(s) : s[i] = ","
    THEN LET i == CHOOSE k \in 1..Len(s) :
                      /\ s[k] = ","
                      /\ \A j \in 1..(k - 1) : s[j] # ","
         IN  <<SubSeq(s, 1, i - 1)>> \o Split(SubSeq(s, i + 1, Len(s)))
    ELSE <<s>>

\* Array.prototype.includes
Includes(arr, x) == \E i \in 1..Len(arr) : arr[i] = x

NonEmptyString(e) == e # <<>>

\* (process.env.ADMIN_ALLOWED_EMAILS || "").split(",")
\*     .map((e) => e.trim().toLowerCase()).filter(Boolean)
ParseAllowedEmails(raw) ==
    LET parts == Split(raw)
        mapped == [i \in 1..Len(parts) |-> ToLowerCase(Trim(parts[i]))]
    IN  SelectSeq(mapped, NonEmptyString)

(***************************************************************************)
(* Roles                                                                   *)
(***************************************************************************)
AdminRole == {"super_admin", "admin", "moderator", "editor", "viewer", "user"}

ADMIN_ALLOWED_ROLES == <<"super_admin", "admin">>

\* role values a stored row can carry in the model: allowed roles, a
\* disallowed role and the empty role that the code tests with `row.role`
StoredRoles == {"super_admin", "admin", "viewer", ""}

(***************************************************************************)
(* Nullable values: a record with an isNull flag                           *)
(***************************************************************************)
NullRow == [isNull |-> TRUE, user_id |-> "", role |-> ""]
Row(u, r) == [isNull |-> FALSE, user_id |-> u, role |-> r]

NullUser == [isNull |-> TRUE, id |-> "", email |-> <<>>]
User(i, e) == [isNull |-> FALSE, id |-> i, email |-> e]

NullAdmin == [isNull |-> TRUE, id |-> "", email |-> <<>>, role |-> ""]
AdminInfo(i, e, r) == [isNull |-> FALSE, id |-> i, email |-> e, role |-> r]

\* error objects of a query: "" is null
NoError == ""
QueryError == "query failed"

\* CheckAdminResult; reason "" is an absent reason
NoReason == ""
NoResult == [ok |-> FALSE, admin |-> NullAdmin, isAuthenticated |-> FALSE, reason |-> "PENDING"]
Deny_AlwaysAuthenticated(isAuth, reason) ==
    [ok |-> FALSE, admin |-> NullAdmin, isAuthenticated |-> TRUE, reason |-> reason]
Deny(isAuth, reason) ==
    [ok |-> FALSE, admin |-> NullAdmin, isAuthenticated |-> isAuth, reason |-> reason]
Allow(id, email, role) ==
    [ok |-> TRUE, admin |-> AdminInfo(id, email, role), isAuthenticated |-> TRUE,
     reason |-> NoReason]

VARIABLES
    env,            \* process.env: url, anon, ADMIN_ALLOWED_EMAILS
    resolver,       \* which generation of checkAdmin the build contains
    allowedEmails,  \* module-level constant parsed from env at load
    user_roles,     \* primary role store: user id -> row or NullRow
    admins,         \* legacy role store: user id -> row or NullRow
    coupons,        \* coupons table: code -> used_count
    inv             \* per call: position and locals of checkAdmin

vars == <<env, resolver, allowedEmails, user_roles, admins, coupons, inv>>

Resolvers == {"two_store", "single_store"}

EnvStrings == {"", "set"}

StoreRows(u) == {NullRow} \cup {Row(u, r) : r \in StoredRoles}

Stores == {s \in [UserIds -> {NullRow} \cup {Row(u, r) : u \in UserIds, r \in StoredRoles}] :
              \A u \in UserIds : s[u] \in StoreRows(u)}

RecordCount(s) == Cardinality({u \in UserIds : ~s[u].isNull})

\* what a caller of checkAdmin hands back: a redirect, a rendered view, a
\* passed-through request or the result object of a server action
NoResponse ==
    [kind |-> "none", view |-> "", location |-> <<>>, redirectedFrom |-> <<>>,
     success |-> FALSE, error |-> ""]

\* what the caller keeps of an earlier checkAdmin call of the same request
NoPrevious == [taken |-> FALSE, result |-> NoResult, lookupError |-> FALSE]

\* the one row of the coupons table, stored upper case
CouponCode == <<"S", "1">>

\* values of the `code` argument of incrementCouponUsage
CodeInputs == {<<"S", "1">>, <<"s", "1">>, <<"z", "9">>}

\* coupons.used_count: int NOT NULL DEFAULT 0
NoUsage == [k \in {CouponCode} |-> 0]

\* `data` of select('used_count').eq('code', ...).single()
NoCurrent == [isNull |-> TRUE, used_count |-> 0]

IdleCall ==
    [pc |-> "idle", session |-> NullUser, user |-> NullUser, email |-> <<>>,
     userRoleRow |-> NullRow, userRoleError |-> NoError,
     adminRow |-> NullRow, adminError |-> NoError,
     lookups |-> <<>>, result |-> NoResult,
     caller |-> "", pathname |-> <<>>, response |-> NoResponse, writes |-> <<>>,
     previous |-> NoPrevious, changed |-> FALSE, logs |-> <<>>,
     instants |-> {}, overlapped |-> 0, revoked |-> "",
     code |-> <<>>, current |-> NoCurrent]

Init ==
    /\ env \in [url : EnvStrings, anon : EnvStrings,
                ADMIN_ALLOWED_EMAILS : AllowedEmailsEnvValues,
                ADMIN_DEBUG : {""}]
    /\ resolver \in Resolvers
    /\ allowedEmails = ParseAllowedEmails(env.ADMIN_ALLOWED_EMAILS)
    /\ user_roles \in Stores
    /\ admins \in Stores
    /\ RecordCount(user_roles) + RecordCount(admins) <= MaxRecords
    /\ coupons = NoUsage
    /\ inv = [c \in Calls |-> IdleCall]


(***************************************************************************)
(* The synchronous decisions of checkAdmin                                 *)
(***************************************************************************)
\* JavaScript truthiness of a string
Truthy(str) == str # ""

\* getSupabaseServerClient: `if (!url || !anon) return null`
EnvMissing_UrlOnly(e) == ~Truthy(e.url)
EnvMissing(e) == ~Truthy(e.url) \/ ~Truthy(e.anon)

\* `if (!user || !user.email)`
NoSession_UserOnly(u) == u.isNull
NoSession(u) == u.isNull \/ u.email = <<>>

\* `if (allowedEmails.length > 0) { if (!allowedEmails.includes(email)) ...`
AllowlistRejects_Never(list, email) == FALSE
AllowlistRejects(list, email) == Len(list) > 0 /\ ~Includes(list, email)

\* ADMIN_ALLOWED_ROLES.includes(role)
IsAllowedRole_SuperOnly(role) == role = "super_admin"
IsAllowedRole(role) == Includes(ADMIN_ALLOWED_ROLES, role)

\* two-store generation: `if (userRoleRow && userRoleRow.role)`,
\*                       `if (adminRow && adminRow.role)`
RowWithRole(row) == ~row.isNull /\ Truthy(row.role)

\* single-store generation: `if (adminRow)`
RowPresent(row) == ~row.isNull

\* `if (allowedEmails.length > 0 && allowedEmails.includes(email))`
BootstrapApplies_Never(list, email) == FALSE
BootstrapApplies_EmptyAllowsAll(list, email) == Len(list) = 0 \/ Includes(list, email)
BootstrapApplies(list, email) == Len(list) > 0 /\ Includes(list, email)

\* .from(table).select(...).eq("user_id", id).maybeSingle() when the query
\* succeeds: the row of that user or null
SelectByUserId_NoRow(store, id) == NullRow
SelectByUserId(store, id) == store[id]

\* the two outcomes of an awaited query: { data, error: null } or
\* { data: null, error }
QueryOutcomes(store, id) ==
    { [data |-> SelectByUserId(store, id), error |-> NoError],
      [data |-> NullRow, error |-> QueryError] }

\* the return of a branch that found a role row
RoleDecision(u, email, role) ==
    IF IsAllowedRole(role)
    THEN Allow(u.id, email, role)
    ELSE Deny(TRUE, "NO_ADMIN_ROLE")

\* the tail of checkAdmin after the last query: bootstrap grant or denial
BootstrapDecision(list, u, email) ==
    IF BootstrapApplies(list, email)
    THEN Allow(u.id, email, "super_admin")
    ELSE Deny(TRUE, "NO_ADMIN_ROLE")

\* the first generation: `const role = adminRow?.role || "super_admin"`
RoleOrDefault(row) ==
    IF ~row.isNull /\ Truthy(row.role) THEN row.role ELSE "super_admin"

\* the admins table after the bootstrap tail: the grant is returned, no row
\* is created for it
AdminsAfterBootstrap_CreatesRow(table, u, res) ==
    IF res.ok THEN [table EXCEPT ![u.id] = Row(u.id, "super_admin")] ELSE table
AdminsAfterBootstrap(table, u, res) == table

(***************************************************************************)
(* Actions: one per await of checkAdmin                                    *)
(***************************************************************************)
Sessions == {NullUser} \cup {User(i, e) : i \in UserIds, e \in SessionEmails}

\* debugLog of the two-store generation: `process.env.ADMIN_DEBUG === "1"`
DebugLog(e) == e.ADMIN_DEBUG = "1"

\* whether a log statement of checkAdmin writes a record: debugLog(...) in
\* the two-store generation, console.log(...) in the single-store one, no
\* statement at all in the first generation
Logs(gen, e) ==
    \/ gen = "two_store" /\ DebugLog(e)
    \/ gen = "single_store"

WithLog(rec, line) ==
    IF Logs(resolver, env) THEN [rec EXCEPT !.logs = Append(@, line)] ELSE rec

\* every return of checkAdmin is preceded by a DENY or ALLOW log statement
Finish(c, rec, res) ==
    inv' = [inv EXCEPT ![c] =
               [WithLog(rec, IF res.ok THEN "ALLOW" ELSE "DENY")
                    EXCEPT !.pc = "done", !.result = res]]

\* a request arrives with its session cookie; requests are resolved one at
\* a time in this specification
Begin(c) ==
    /\ \A d \in Calls : inv[d].pc = "idle"
    /\ \E s \in Sessions :
           inv' = [inv EXCEPT ![c] = [IdleCall EXCEPT !.pc = "getClient", !.session = s]]
    /\ UNCHANGED <<coupons, env, resolver, allowedEmails, user_roles, admins>>

\* const supabase = await getSupabaseServerClient(); if (!supabase) ...
GetClient(c) ==
    /\ inv[c].pc = "getClient"
    /\ IF EnvMissing(env)
       THEN Finish(c, inv[c], Deny(FALSE, "MISSING_ENV"))
       ELSE inv' = [inv EXCEPT ![c].pc = "getUser"]
    /\ UNCHANGED <<coupons, env, resolver, allowedEmails, user_roles, admins>>

\* await supabase.auth.getUser(), the session check and the allowlist gate
GetUser(c) ==
    /\ inv[c].pc = "getUser"
    /\ LET u == inv[c].session
           rec == WithLog([inv[c] EXCEPT !.user = u,
                                         !.lookups = Append(@, "auth.getUser")],
                          "Session user")
       IN  IF NoSession(u)
           THEN Finish(c, rec, Deny(FALSE, "NO_SESSION"))
           ELSE LET email == ToLowerCase(u.email)
                    rec2 == [rec EXCEPT !.email = email]
                IN  IF AllowlistRejects(allowedEmails, email)
                    THEN Finish(c, rec2, Deny(TRUE, "NOT_ALLOWED"))
                    ELSE inv' = [inv EXCEPT ![c] =
                                    [rec2 EXCEPT !.pc =
                                        IF resolver = "two_store"
                                        THEN "queryUserRoles"
                                        ELSE "queryAdmins"]]
    /\ UNCHANGED <<coupons, env, resolver, allowedEmails, user_roles, admins>>

\* STEP 1 of the two-store generation: await the user_roles query
QueryUserRoles(c) ==
    /\ inv[c].pc = "queryUserRoles"
    /\ \E out \in QueryOutcomes(user_roles, inv[c].user.id) :
           LET rec == WithLog([inv[c] EXCEPT !.userRoleRow = out.data,
                                             !.userRoleError = out.error,
                                             !.lookups = Append(@, "user_roles")],
                              "user_roles table query")
           IN  IF RowWithRole(out.data)
               THEN Finish(c, rec, RoleDecision(rec.user, rec.email, out.data.role))
               ELSE inv' = [inv EXCEPT ![c] = [rec EXCEPT !.pc = "queryAdmins"]]
    /\ UNCHANGED <<coupons, env, resolver, allowedEmails, user_roles, admins>>

\* await the admins query, then the bootstrap tail
QueryAdmins(c) ==
    /\ inv[c].pc = "queryAdmins"
    /\ \E out \in QueryOutcomes(admins, inv[c].user.id) :
           LET rec == WithLog([inv[c] EXCEPT !.adminRow = out.data,
                                             !.adminError = out.error,
                                             !.lookups = Append(@, "admins")],
                              "admins table query")
               found == IF resolver = "two_store"
                        THEN RowWithRole(out.data)
                        ELSE RowPresent(out.data)
           IN  IF resolver = "role_default"
               THEN /\ Finish(c, rec, Allow(rec.user.id, rec.email, RoleOrDefault(out.data)))
                    /\ UNCHANGED admins
               ELSE IF found
               THEN /\ Finish(c, rec, RoleDecision(rec.user, rec.email, out.data.role))
                    /\ UNCHANGED admins
               ELSE LET res == BootstrapDecision(allowedEmails, rec.user, rec.email)
                    IN  /\ Finish(c, rec, res)
                        /\ admins' = AdminsAfterBootstrap(admins, rec.user, res)
    /\ UNCHANGED <<coupons, env, resolver, allowedEmails, user_roles>>

\* the caller has consumed the result; the slot serves the next request
Return(c) ==
    /\ inv[c].pc = "done"
    /\ inv' = [inv EXCEPT ![c] = IdleCall]
    /\ UNCHANGED <<coupons, env, resolver, allowedEmails, user_roles, admins>>

Next ==
    \E c \in Calls :
        \/ Begin(c)
        \/ GetClient(c)
        \/ GetUser(c)
        \/ QueryUserRoles(c)
        \/ QueryAdmins(c)
        \/ Return(c)

Spec == Init /\ [][Next]_vars

(***************************************************************************)
(* Vocabulary of the properties, stated on the inputs of a call (session,  *)
(* environment, store contents) and on what the call recorded              *)
(***************************************************************************)
Done(c) == inv[c].pc = "done"

ConfigPresent == env.url # "" /\ env.anon # ""

\* the request carries a principal: a user with an e-mail address
Authenticated(c) == ~inv[c].session.isNull /\ inv[c].session.email # <<>>

PrincipalId(c) == inv[c].session.id

PrincipalEmail(c) == ToLowerCase(inv[c].session.email)

AllowSet == {allowedEmails[i] : i \in 1..Len(allowedEmails)}

PassesGate(c) == AllowSet = {} \/ PrincipalEmail(c) \in AllowSet

AllowedRoleSet == {"super_admin", "admin"}

Queried(c, table) == \E i \in 1..Len(inv[c].lookups) : inv[c].lookups[i] = table

NoStoreQueried(c) == ~Queried(c, "user_roles") /\ ~Queried(c, "admins")

NoLookupError(c) == inv[c].userRoleError = NoError /\ inv[c].adminError = NoError

DeniedWith(c, isAuth, reason) ==
    inv[c].result = [ok |-> FALSE, admin |-> NullAdmin,
                     isAuthenticated |-> isAuth, reason |-> reason]

AuthorizedWith(c, role) ==
    inv[c].result = [ok |-> TRUE,
                     admin |-> [isNull |-> FALSE, id |-> PrincipalId(c),
                                email |-> PrincipalEmail(c), role |-> role],
                     isAuthenticated |-> TRUE, reason |-> NoReason]

\* a two-store call of an authenticated principal that passed the gate
ResolvedPastGate(c) ==
    /\ Done(c)
    /\ resolver = "two_store"
    /\ ConfigPresent
    /\ Authenticated(c)
    /\ PassesGate(c)

(***************************************************************************)
(* C1  Demotion wins: a principal past the allowlist gate whose user_roles *)
(* record carries a role outside {super_admin, admin} is denied with       *)
(* NO_ADMIN_ROLE whatever the admins table holds, and the admins table is  *)
(* not queried in that call.                                               *)
(***************************************************************************)
C1_DemotionWins ==
    \A c \in Calls :
        ( /\ ResolvedPastGate(c)
          /\ NoLookupError(c)
          /\ ~user_roles[PrincipalId(c)].isNull
          /\ user_roles[PrincipalId(c)].role \notin AllowedRoleSet )
        => /\ DeniedWith(c, TRUE, "NO_ADMIN_ROLE")
           /\ ~Queried(c, "admins")

(***************************************************************************)
(* C2  Allowlist gate: with configuration present and a principal in the   *)
(* session, the result is NOT_ALLOWED exactly when the allowlist is        *)
(* non-empty and lacks the lowercased e-mail; then no role store has been  *)
(* queried, whatever records exist. With an empty allowlist NOT_ALLOWED is *)
(* never returned.                                                         *)
(***************************************************************************)
C2_AllowlistGate ==
    \A c \in Calls :
        (Done(c) /\ ConfigPresent /\ Authenticated(c))
        => /\ (inv[c].result.reason = "NOT_ALLOWED")
                  <=> (AllowSet # {} /\ PrincipalEmail(c) \notin AllowSet)
           /\ (inv[c].result.reason = "NOT_ALLOWED")
                  => (DeniedWith(c, TRUE, "NOT_ALLOWED") /\ NoStoreQueried(c))
           /\ (Len(allowedEmails) = 0) => (inv[c].result.reason # "NOT_ALLOWED")

\* a principal holding an allowed role record is rejected by the gate
C2_Witness ==
    \E c \in Calls :
        /\ Done(c) /\ ConfigPresent /\ Authenticated(c)
        /\ inv[c].result.reason = "NOT_ALLOWED"
        /\ \/ user_roles[PrincipalId(c)].role \in AllowedRoleSet
           \/ admins[PrincipalId(c)].role \in AllowedRoleSet

(***************************************************************************)
(* C3  A role-store lookup that returns an error is not treated as "no     *)
(* record": the call reports a failure distinct from the normal outcomes   *)
(* and is never authorized.                                                *)
(***************************************************************************)
C3_LookupErrorFailsClosed ==
    \A c \in Calls :
        (Done(c) /\ ~NoLookupError(c))
        => /\ ~inv[c].result.ok
           /\ inv[c].result.reason \notin
                  {"MISSING_ENV", "NO_SESSION", "NOT_ALLOWED", "NO_ADMIN_ROLE"}

(***************************************************************************)
(* C4  Bootstrap grant: a principal with no record in user_roles and none  *)
(* in admins whose lowercased e-mail is in the non-empty allowlist is      *)
(* authorized with role super_admin.                                       *)
(***************************************************************************)
C4_BootstrapGrant ==
    \A c \in Calls :
        ( /\ Done(c) /\ ConfigPresent /\ Authenticated(c)
          /\ user_roles[PrincipalId(c)].isNull
          /\ admins[PrincipalId(c)].isNull
          /\ AllowSet # {} /\ PrincipalEmail(c) \in AllowSet )
        => AuthorizedWith(c, "super_admin")

\* the grant is given to a session whose e-mail is written in upper case
C4_Witness ==
    \E c \in Calls :
        /\ Done(c) /\ ConfigPresent /\ Authenticated(c)
        /\ user_roles[PrincipalId(c)].isNull
        /\ admins[PrincipalId(c)].isNull
        /\ inv[c].session.email = EmailAUpper
        /\ PrincipalEmail(c) \in AllowSet
        /\ inv[c].result.ok
        /\ inv[c].result.admin.role = "super_admin"

(***************************************************************************)
(* C5  The bootstrap never overrides an explicit denial: a record found in *)
(* admins (user_roles holding none) with a role outside the allowed set    *)
(* gives NO_ADMIN_ROLE even for an allowlisted e-mail, and a principal     *)
(* without an allowed role record is authorized only when neither store    *)
(* holds a record for it.                                                  *)
(***************************************************************************)
C5_BootstrapNeverOverridesDenial ==
    \A c \in Calls :
        (ResolvedPastGate(c) /\ NoLookupError(c))
        => /\ ( /\ user_roles[PrincipalId(c)].isNull
                /\ ~admins[PrincipalId(c)].isNull
                /\ admins[PrincipalId(c)].role \notin AllowedRoleSet )
              => DeniedWith(c, TRUE, "NO_ADMIN_ROLE")
           /\ ( /\ inv[c].result.ok
                /\ user_roles[PrincipalId(c)].role \notin AllowedRoleSet
                /\ admins[PrincipalId(c)].role \notin AllowedRoleSet )
              => ( /\ user_roles[PrincipalId(c)].isNull
                   /\ admins[PrincipalId(c)].isNull )

(***************************************************************************)
(* C6  A principal past the gate whose user_roles record, returned by the  *)
(* primary lookup, carries an allowed role is authorized with exactly that *)
(* role, whatever the admins table holds.                                  *)
(***************************************************************************)
C6_PrimaryAllowedRole ==
    \A c \in Calls :
        ( /\ ResolvedPastGate(c)
          /\ inv[c].userRoleError = NoError
          /\ ~user_roles[PrincipalId(c)].isNull
          /\ user_roles[PrincipalId(c)].role \in AllowedRoleSet )
        => /\ AuthorizedWith(c, user_roles[PrincipalId(c)].role)
           /\ ~Queried(c, "admins")

\* authorized as admin from user_roles while admins holds another role
C6_Witness ==
    \E c \in Calls :
        /\ ResolvedPastGate(c)
        /\ user_roles[PrincipalId(c)].role = "admin"
        /\ admins[PrincipalId(c)].role \in {"viewer", "super_admin"}
        /\ ~admins[PrincipalId(c)].isNull
        /\ inv[c].result.ok
        /\ inv[c].result.admin.role = "admin"

(***************************************************************************)
(* C7  A principal past the gate with no user_roles record and an admins   *)
(* record, returned by the legacy lookup, that carries an allowed role is  *)
(* authorized with the role of the admins record.                          *)
(***************************************************************************)
C7_LegacyFallback ==
    \A c \in Calls :
        ( /\ ResolvedPastGate(c)
          /\ NoLookupError(c)
          /\ user_roles[PrincipalId(c)].isNull
          /\ ~admins[PrincipalId(c)].isNull
          /\ admins[PrincipalId(c)].role \in AllowedRoleSet )
        => AuthorizedWith(c, admins[PrincipalId(c)].role)

\* an allowlisted principal gets the legacy role admin, not the bootstrap role
C7_Witness ==
    \E c \in Calls :
        /\ ResolvedPastGate(c)
        /\ NoLookupError(c)
        /\ user_roles[PrincipalId(c)].isNull
        /\ admins[PrincipalId(c)].role = "admin"
        /\ PrincipalEmail(c) \in AllowSet
        /\ Queried(c, "user_roles") /\ Queried(c, "admins")
        /\ inv[c].result.ok
        /\ inv[c].result.admin.role = "admin"

(***************************************************************************)
(* C8  The admins table is queried only when user_roles genuinely has no   *)
(* record for the principal: a user_roles record with an empty role is a   *)
(* found record with a non-allowed role, so the call is denied with        *)
(* NO_ADMIN_ROLE without reaching the admins table or the bootstrap.       *)
(***************************************************************************)
C8_EmptyRoleIsNotAbsence ==
    \A c \in Calls :
        (ResolvedPastGate(c) /\ inv[c].userRoleError = NoError)
        => /\ Queried(c, "admins") => user_roles[PrincipalId(c)].isNull
           /\ ( /\ ~user_roles[PrincipalId(c)].isNull
                /\ user_roles[PrincipalId(c)].role = "" )
              => DeniedWith(c, TRUE, "NO_ADMIN_ROLE")

(***************************************************************************)
(* C9  Without an authenticated principal (no user, or a user without an   *)
(* e-mail) the result is NO_SESSION with isAuthenticated false, and no     *)
(* role store is queried in that call.                                     *)
(***************************************************************************)
C9_NoSession ==
    \A c \in Calls :
        (Done(c) /\ ConfigPresent /\ ~Authenticated(c))
        => /\ DeniedWith(c, FALSE, "NO_SESSION")
           /\ NoStoreQueried(c)

\* a request without a user ends after the session lookup alone
C9_Witness ==
    \E c \in Calls :
        /\ Done(c) /\ ConfigPresent
        /\ inv[c].session.isNull
        /\ inv[c].result.reason = "NO_SESSION"
        /\ inv[c].lookups = <<"auth.getUser">>

(***************************************************************************)
(* C10  When the Supabase URL or the anon key is absent the call fails     *)
(* closed with the missing-configuration denial before the session lookup  *)
(* and before any role-store lookup.                                       *)
(***************************************************************************)
C10_MissingConfiguration ==
    \A c \in Calls :
        (Done(c) /\ ~ConfigPresent)
        => /\ DeniedWith(c, FALSE, "MISSING_ENV")
           /\ inv[c].lookups = <<>>

\* the URL is set, the anon key is not, and the request carries a session
C10_Witness ==
    \E c \in Calls :
        /\ Done(c)
        /\ env.url # "" /\ env.anon = ""
        /\ Authenticated(c)
        /\ inv[c].result.reason = "MISSING_ENV"
        /\ inv[c].lookups = <<>>

(***************************************************************************)
(* C11  (as stated) A principal with no record in either role store whose  *)
(* e-mail is absent from a non-empty allowlist is denied with reason       *)
(* NO_ADMIN_ROLE.                                                          *)
(***************************************************************************)
C11_AbsentEverywhereNoAdminRole ==
    \A c \in Calls :
        ( /\ Done(c) /\ ConfigPresent /\ Authenticated(c)
          /\ user_roles[PrincipalId(c)].isNull
          /\ admins[PrincipalId(c)].isNull
          /\ AllowSet # {} /\ PrincipalEmail(c) \notin AllowSet )
        => DeniedWith(c, TRUE, "NO_ADMIN_ROLE")

(***************************************************************************)
(* C11  (amended) Such a principal is denied, and the reason is            *)
(* NOT_ALLOWED: the allowlist gate rejects it before any role store is     *)
(* queried.                                                                *)
(***************************************************************************)
C11_AbsentEverywhereDenied ==
    \A c \in Calls :
        ( /\ Done(c) /\ ConfigPresent /\ Authenticated(c)
          /\ user_roles[PrincipalId(c)].isNull
          /\ admins[PrincipalId(c)].isNull
          /\ AllowSet # {} /\ PrincipalEmail(c) \notin AllowSet )
        => /\ DeniedWith(c, TRUE, "NOT_ALLOWED")
           /\ NoStoreQueried(c)

\* b@x has no record anywhere and the allowlist holds only a@x
C11_Witness ==
    \E c \in Calls :
        /\ Done(c) /\ ConfigPresent /\ Authenticated(c)
        /\ user_roles[PrincipalId(c)].isNull
        /\ admins[PrincipalId(c)].isNull
        /\ AllowSet = {EmailA}
        /\ PrincipalEmail(c) = EmailB
        /\ inv[c].result.reason = "NOT_ALLOWED"

(***************************************************************************)
(* C12  With an empty allowlist there is no bootstrap grant: a principal   *)
(* with no record in either store is denied with NO_ADMIN_ROLE, and every  *)
(* authorized result carries the allowed role of a record that a store     *)
(* holds for the principal.                                                *)
(***************************************************************************)
C12_EmptyAllowlistNoBootstrap ==
    \A c \in Calls :
        (Done(c) /\ ConfigPresent /\ Authenticated(c) /\ AllowSet = {})
        => /\ ( /\ user_roles[PrincipalId(c)].isNull
                /\ admins[PrincipalId(c)].isNull )
              => DeniedWith(c, TRUE, "NO_ADMIN_ROLE")
           /\ inv[c].result.ok
              => \E row \in {user_roles[PrincipalId(c)], admins[PrincipalId(c)]} :
                     /\ ~row.isNull
                     /\ row.role \in AllowedRoleSet
                     /\ row.role = inv[c].result.admin.role

\* the allowlist variable is set but parses to nothing, both stores were
\* queried and found empty
C12_Witness ==
    \E c \in Calls :
        /\ Done(c) /\ ConfigPresent /\ Authenticated(c)
        /\ env.ADMIN_ALLOWED_EMAILS # <<>> /\ AllowSet = {}
        /\ user_roles[PrincipalId(c)].isNull
        /\ admins[PrincipalId(c)].isNull
        /\ Queried(c, "admins")
        /\ inv[c].result.reason = "NO_ADMIN_ROLE"

(***************************************************************************)
(* C13  Every result is either {ok, admin present, isAuthenticated, no     *)
(* reason} or {not ok, admin null, one reason}. The reason is the first of *)
(* MISSING_ENV, NO_SESSION, NOT_ALLOWED, NO_ADMIN_ROLE whose condition     *)
(* holds, and isAuthenticated is false exactly for MISSING_ENV and         *)
(* NO_SESSION.                                                             *)
(***************************************************************************)
ExpectedReason(c) ==
    IF ~ConfigPresent THEN "MISSING_ENV"
    ELSE IF ~Authenticated(c) THEN "NO_SESSION"
    ELSE IF AllowSet # {} /\ PrincipalEmail(c) \notin AllowSet THEN "NOT_ALLOWED"
    ELSE "NO_ADMIN_ROLE"

C13_ResultShape ==
    \A c \in Calls :
        Done(c) =>
            LET r == inv[c].result IN
            /\ \/ /\ r.ok /\ ~r.admin.isNull /\ r.isAuthenticated
                  /\ r.reason = NoReason
                  /\ ExpectedReason(c) = "NO_ADMIN_ROLE"
               \/ /\ ~r.ok /\ r.admin.isNull
                  /\ r.reason = ExpectedReason(c)
            /\ ~r.isAuthenticated <=> r.reason \in {"MISSING_ENV", "NO_SESSION"}

\* each of the four denials and the authorized shape occur; this one is
\* the denial that keeps isAuthenticated true after the gate
C13_Witness ==
    \E c \in Calls :
        /\ Done(c)
        /\ inv[c].result.reason = "NOT_ALLOWED"
        /\ inv[c].result.isAuthenticated
        /\ inv[c].result.admin.isNull

(***************************************************************************)
(* The callers of checkAdmin: the dashboard layout and the server actions, *)
(* and the middleware that sees every matched request before them          *)
(***************************************************************************)
PathRoot == <<"/">>
PathLogin == <<"/", "l", "o", "g", "i", "n">>
PathLoginReset == PathLogin \o <<"/", "r">>
PathOrders == <<"/", "o", "r", "d", "e", "r", "s">>
PathApi == <<"/", "a", "p", "i", "/", "c">>
PathNext == <<"/", "_", "n", "e", "x", "t", "/", "d">>
PathFile == <<"/", "r", ".", "t", "x", "t">>

\* request.nextUrl.pathname values of the model
Pathnames == {PathRoot, PathLogin, PathLoginReset, PathOrders, PathApi, PathNext, PathFile}

\* String.prototype.startsWith
StartsWith(str, prefix) ==
    Len(str) >= Len(prefix) /\ SubSeq(str, 1, Len(prefix)) = prefix

\* String.prototype.includes, for a one-character needle
IncludesChar(str, ch) == \E i \in 1..Len(str) : str[i] = ch

PublicRoutes == <<PathLogin>>

\* publicRoutes.some(route => pathname.startsWith(route))
IsPublicRoute_Reversed(pathname) ==
    \E i \in 1..Len(PublicRoutes) : StartsWith(PublicRoutes[i], pathname)
IsPublicRoute(pathname) ==
    \E i \in 1..Len(PublicRoutes) : StartsWith(pathname, PublicRoutes[i])

\* static assets and API routes that pass through
IsPassThrough(pathname) ==
    \/ StartsWith(pathname, <<"/", "_", "n", "e", "x", "t">>)
    \/ StartsWith(pathname, <<"/", "a", "p", "i">>)
    \/ IncludesChar(pathname, ".")

PassThrough == [NoResponse EXCEPT !.kind = "next"]
RedirectTo(location, from) ==
    [NoResponse EXCEPT !.kind = "redirect", !.location = location,
                       !.redirectedFrom = from]
Render(view) == [NoResponse EXCEPT !.kind = "render", !.view = view]
ActionResult(success, error) ==
    [NoResponse EXCEPT !.kind = "action", !.success = success, !.error = error]
Unhandled == [NoResponse EXCEPT !.kind = "exception"]

\* middleware(request), after `const { data: { user } } = await getUser()`
Middleware(u, pathname) ==
    IF IsPassThrough(pathname) THEN PassThrough
    ELSE IF u.isNull /\ ~IsPublicRoute(pathname) THEN RedirectTo(PathLogin, pathname)
    ELSE IF ~u.isNull /\ IsPublicRoute(pathname) THEN RedirectTo(PathRoot, <<>>)
    ELSE PassThrough

\* DashboardLayout, after `const result = await checkAdmin()`
DashboardLayout_NoRedirect(result) ==
    IF ~result.ok \/ result.admin.isNull THEN Render("NotAuthorized")
    ELSE Render("children")
DashboardLayout(result) ==
    IF ~result.isAuthenticated THEN RedirectTo(PathLogin, <<>>)
    ELSE IF ~result.ok \/ result.admin.isNull THEN Render("NotAuthorized")
    ELSE Render("children")

\* ensureAdmin, after `const result = await checkAdmin()`
EnsureAdmin_ReasonInError(result) ==
    IF ~result.isAuthenticated THEN [ok |-> FALSE, error |-> "Not authenticated"]
    ELSE IF ~result.ok \/ result.admin.isNull THEN [ok |-> FALSE, error |-> result.reason]
    ELSE [ok |-> TRUE, error |-> ""]
EnsureAdmin(result) ==
    IF ~result.isAuthenticated THEN [ok |-> FALSE, error |-> "Not authenticated"]
    ELSE IF ~result.ok \/ result.admin.isNull THEN [ok |-> FALSE, error |-> "Not authorized"]
    ELSE [ok |-> TRUE, error |-> ""]

\* the server actions that write through createAdminClient after ensureAdmin
AdminActions == {"addAdminAction", "updateAdminRoleAction", "deleteAdminAction"}
SettingActions == {"updateSettingAction", "createSettingAction", "deleteSettingAction"}
ContentActions ==
    {"updateOrderAction", "updateLeadAction",
     "createPage", "updatePage", "deletePage",
     "createPackage", "updatePackage", "deletePackage",
     "createCouponAction", "updateCouponAction", "deleteCouponAction"}
GuardedActions == AdminActions \cup SettingActions \cup ContentActions

\* the table an action writes
TableOf(action) ==
    CASE action \in AdminActions -> "admins"
      [] action \in SettingActions -> "settings"
      [] action \in {"updateOrderAction"} -> "bookings"
      [] action \in {"updateLeadAction"} -> "leads"
      [] action \in {"createPage", "updatePage", "deletePage"} -> "pages"
      [] action \in {"createPackage", "updatePackage", "deletePackage"} -> "packages"
      [] OTHER -> "coupons"

\* `catch (err) { return { success: false, error: 'Failed to ...' } }`
CatchResult_Rethrow(action) == Unhandled
CatchResult(action) == ActionResult(FALSE, "Failed")

\* roleOptions of the admin actions, as far as stored rows model them
RoleOptions == StoredRoles \ {""}

\* inputs of a server action: the addressed user row, the role to set and
\* whether the remaining fields pass the action's validation
ActionInputs == [target : UserIds, role : RoleOptions, valid : BOOLEAN]

\* the effect of an admin action on the admins table when its query succeeds
AdminsAfter(action, input, table) ==
    CASE action = "addAdminAction" ->
             [table EXCEPT ![input.target] = Row(input.target, input.role)]
      [] action = "updateAdminRoleAction" ->
             IF table[input.target].isNull THEN table
             ELSE [table EXCEPT ![input.target] = Row(input.target, input.role)]
      [] action = "deleteAdminAction" ->
             [table EXCEPT ![input.target] = NullRow]
      [] OTHER -> table

\* the user whose access an admin action takes away: deleteAdminAction
\* removes the row, updateAdminRoleAction sets a role that checkAdmin does
\* not accept; "" when the action does neither
Revoked(action, input, table) ==
    IF /\ ~table[input.target].isNull
       /\ \/ action = "deleteAdminAction"
          \/ action = "updateAdminRoleAction" /\ ~IsAllowedRole(input.role)
    THEN input.target
    ELSE ""

(***************************************************************************)
(* Actions of the callers                                                  *)
(***************************************************************************)
\* sessions of the requests that reach the callers: no user, two users with
\* an e-mail and one without
AppSessions ==
    {NullUser, User("u1", EmailA), User("u2", EmailB), User("u2", <<>>)}

Start(c, caller, session, pathname, pc) ==
    /\ \A d \in Calls : inv[d].pc = "idle"
    /\ inv' = [inv EXCEPT ![c] = [IdleCall EXCEPT !.pc = pc, !.caller = caller,
                                                  !.session = session,
                                                  !.pathname = pathname]]
    /\ UNCHANGED <<coupons, env, resolver, allowedEmails, user_roles, admins>>

Respond(c, rec, response) ==
    inv' = [inv EXCEPT ![c] = [rec EXCEPT !.pc = "responded", !.response = response]]

\* a dashboard page is rendered: DashboardLayout calls checkAdmin
BeginLayout(c) ==
    \E s \in AppSessions : Start(c, "DashboardLayout", s, <<>>, "getClient")

\* a guarded server action is invoked: its ensureAdmin calls checkAdmin
BeginAction(c) ==
    \E s \in AppSessions, a \in GuardedActions : Start(c, a, s, <<>>, "getClient")

\* incrementCouponUsage is invoked: it goes to createAdminClient directly
BeginIncrementCouponUsage(c) ==
    /\ \A d \in Calls : inv[d].pc = "idle"
    /\ coupons[CouponCode] < MaxUses
    /\ \E s \in AppSessions, code \in CodeInputs :
           inv' = [inv EXCEPT ![c] = [IdleCall EXCEPT !.pc = "write",
                                         !.caller = "incrementCouponUsage",
                                         !.session = s, !.code = code]]
    /\ UNCHANGED <<coupons, env, resolver, allowedEmails, user_roles, admins>>

\* a matched request reaches the middleware
BeginRequest(c) ==
    \E s \in AppSessions, p \in Pathnames : Start(c, "middleware", s, p, "middleware")

\* an await inside checkAdmin rejects (cookies(), the auth call or a query
\* throws instead of returning)
Throw(c) ==
    /\ inv[c].pc \in {"getClient", "getUser", "queryUserRoles", "queryAdmins"}
    /\ inv[c].caller # ""
    /\ inv' = [inv EXCEPT ![c].pc = "thrown"]
    /\ UNCHANGED <<coupons, env, resolver, allowedEmails, user_roles, admins>>

\* debugLog of the layout: "checkAdmin result:" and the branch taken
WithLayoutLog(rec) ==
    IF env.ADMIN_DEBUG = "1"
    THEN [rec EXCEPT !.logs = Append(@, "checkAdmin result")]
    ELSE rec

\* DashboardLayout after the await; it has no try/catch
LayoutRender(c) ==
    /\ inv[c].caller = "DashboardLayout"
    /\ inv[c].pc \in {"done", "thrown"}
    /\ IF inv[c].pc = "thrown"
       THEN Respond(c, inv[c], Unhandled)
       ELSE Respond(c, WithLayoutLog(inv[c]), DashboardLayout(inv[c].result))
    /\ UNCHANGED <<coupons, env, resolver, allowedEmails, user_roles, admins>>

\* `const auth = await ensureAdmin(); if (!auth.ok) return {success: false, ...}`
EnsureAdminReturn(c) ==
    /\ inv[c].caller \in GuardedActions
    /\ inv[c].pc = "done"
    /\ LET auth == EnsureAdmin(inv[c].result)
       IN  IF ~auth.ok
           THEN Respond(c, inv[c], ActionResult(FALSE, auth.error))
           ELSE inv' = [inv EXCEPT ![c].pc = "write"]
    /\ UNCHANGED <<coupons, env, resolver, allowedEmails, user_roles, admins>>

\* the catch block of the action, entered when checkAdmin threw
ActionCatch(c) ==
    /\ inv[c].caller \in GuardedActions
    /\ inv[c].pc = "thrown"
    /\ Respond(c, inv[c], CatchResult(inv[c].caller))
    /\ UNCHANGED <<coupons, env, resolver, allowedEmails, user_roles, admins>>

\* input validation, createAdminClient() and the awaited write
ActionWrite(c) ==
    /\ inv[c].caller \in GuardedActions
    /\ inv[c].pc = "write"
    /\ \E input \in ActionInputs, outcome \in {"ok", "error", "throw"} :
           LET a == inv[c].caller
               rejected ==
                   \/ ~input.valid
                   \/ a = "addAdminAction" /\ ~admins[input.target].isNull
           IN  IF rejected
               THEN /\ Respond(c, inv[c], ActionResult(FALSE, "Invalid input"))
                    /\ UNCHANGED admins
               ELSE IF outcome = "throw"
               THEN /\ Respond(c, inv[c], CatchResult(a))
                    /\ UNCHANGED admins
               ELSE IF outcome = "error"
               THEN /\ Respond(c, inv[c], ActionResult(FALSE, "error.message"))
                    /\ UNCHANGED admins
               ELSE /\ Respond(c, [inv[c] EXCEPT
                                      !.writes = Append(@, TableOf(a)),
                                      !.revoked = Revoked(a, input, admins)],
                               ActionResult(TRUE, ""))
                    /\ admins' = AdminsAfter(a, input, admins)
    /\ UNCHANGED <<coupons, env, resolver, allowedEmails, user_roles>>

\* incrementCouponUsage: the rpc or its fallback update through the service
\* role client; `return { success: true }` unless something throws
\* the row `.eq('code', code)` selects
SelectCoupon(table, code) ==
    IF code \in DOMAIN table
    THEN [isNull |-> FALSE, used_count |-> table[code]]
    ELSE NoCurrent

\* one UPDATE statement: used_count of the matching row becomes `value`
UpdateCoupon(table, code, value) ==
    IF code \in DOMAIN table THEN [table EXCEPT ![code] = value] ELSE table

\* createAdminClient(), then `await supabase.rpc('increment', ...)`.  The
\* migrations define no function `increment`: the call errors unless the
\* database was given one by hand, and then it adds one in one statement.
IncrementCouponUsage(c) ==
    /\ inv[c].caller = "incrementCouponUsage"
    /\ inv[c].pc = "write"
    /\ \E outcome \in {"ok", "error", "throw"} :
           CASE outcome = "throw" ->
                  /\ Respond(c, inv[c], ActionResult(FALSE, "Failed"))
                  /\ UNCHANGED coupons
             [] outcome = "error" ->
                  /\ inv' = [inv EXCEPT ![c].pc = "couponUpdate"]
                  /\ UNCHANGED coupons
             [] outcome = "ok" ->
                  LET key == ToUpperCase(inv[c].code)
                      row == SelectCoupon(coupons, key)
                  IN  /\ coupons' = UpdateCoupon(coupons, key, row.used_count + 1)
                      /\ Respond(c, [inv[c] EXCEPT !.writes = Append(@, "coupons")],
                                 ActionResult(TRUE, ""))
    /\ UNCHANGED <<env, resolver, allowedEmails, user_roles, admins>>

\* `await update({ used_count: supabase.rpc('', {}) })`: the value is a
\* query builder, not a number; the statement changes no row, and its
\* error is not looked at
CouponUpdate(c) ==
    /\ inv[c].caller = "incrementCouponUsage"
    /\ inv[c].pc = "couponUpdate"
    /\ \E outcome \in {"error", "throw"} :
           IF outcome = "throw"
           THEN Respond(c, inv[c], ActionResult(FALSE, "Failed"))
           ELSE inv' = [inv EXCEPT ![c].pc = "couponSelect"]
    /\ UNCHANGED <<coupons, env, resolver, allowedEmails, user_roles, admins>>

\* `const { data: current } = await select('used_count').eq('code',
\* code.toUpperCase()).single()`
CouponSelect(c) ==
    /\ inv[c].caller = "incrementCouponUsage"
    /\ inv[c].pc = "couponSelect"
    /\ inv' = [inv EXCEPT ![c].pc = "couponWrite",
                          ![c].current =
                              SelectCoupon(coupons, ToUpperCase(inv[c].code))]
    /\ UNCHANGED <<coupons, env, resolver, allowedEmails, user_roles, admins>>

\* `if (current) await update({ used_count: (current.used_count || 0) + 1 })`
\* and `return { success: true }`
CouponWrite(c) ==
    /\ inv[c].caller = "incrementCouponUsage"
    /\ inv[c].pc = "couponWrite"
    /\ IF inv[c].current.isNull
       THEN /\ Respond(c, inv[c], ActionResult(TRUE, ""))
            /\ UNCHANGED coupons
       ELSE /\ coupons' = UpdateCoupon(coupons, ToUpperCase(inv[c].code),
                                       inv[c].current.used_count + 1)
            /\ Respond(c, [inv[c] EXCEPT !.writes = Append(@, "coupons")],
                       ActionResult(TRUE, ""))
    /\ UNCHANGED <<env, resolver, allowedEmails, user_roles, admins>>

\* middleware(request): the user of the session, then the routing decision
MiddlewareRun(c) ==
    /\ inv[c].caller = "middleware"
    /\ inv[c].pc = "middleware"
    /\ Respond(c, [inv[c] EXCEPT !.user = inv[c].session,
                                 !.lookups = Append(@, "auth.getUser")],
               Middleware(inv[c].session, inv[c].pathname))
    /\ UNCHANGED <<coupons, env, resolver, allowedEmails, user_roles, admins>>

\* the response has been sent; the slot serves the next request
Complete(c) ==
    /\ inv[c].pc = "responded"
    /\ inv' = [inv EXCEPT ![c] = IdleCall]
    /\ UNCHANGED <<coupons, env, resolver, allowedEmails, user_roles, admins>>

NextApp ==
    \E c \in Calls :
        \/ BeginLayout(c)
        \/ BeginAction(c)
        \/ BeginIncrementCouponUsage(c)
        \/ BeginRequest(c)
        \/ GetClient(c)
        \/ GetUser(c)
        \/ QueryUserRoles(c)
        \/ QueryAdmins(c)
        \/ Throw(c)
        \/ LayoutRender(c)
        \/ EnsureAdminReturn(c)
        \/ ActionCatch(c)
        \/ ActionWrite(c)
        \/ IncrementCouponUsage(c)
        \/ CouponUpdate(c)
        \/ CouponSelect(c)
        \/ CouponWrite(c)
        \/ MiddlewareRun(c)
        \/ Complete(c)

\* the callers are exercised on a deployment whose URL is configured and
\* whose roles live in the admins table, the table the admin actions manage
InitApp ==
    /\ Init
    /\ env.url = "set"
    /\ env.ADMIN_ALLOWED_EMAILS \in {<<>>, EmailA}
    /\ RecordCount(user_roles) = 0

SpecApp == InitApp /\ [][NextApp]_vars

(***************************************************************************)
(* Vocabulary of the properties of the callers                             *)
(***************************************************************************)
Responded(c) == inv[c].pc = "responded"

\* checkAdmin returned a result to the caller (it did not throw)
Resolved(c) == inv[c].result.reason # "PENDING"

\* checkAdmin was entered by a guarded action and threw
Threw(c) ==
    /\ inv[c].caller \in GuardedActions
    /\ inv[c].pc \in {"thrown", "responded"}
    /\ ~Resolved(c)

LoginRedirect ==
    [kind |-> "redirect", view |-> "", location |-> PathLogin,
     redirectedFrom |-> <<>>, success |-> FALSE, error |-> ""]

NotAuthorizedView ==
    [kind |-> "render", view |-> "NotAuthorized", location |-> <<>>,
     redirectedFrom |-> <<>>, success |-> FALSE, error |-> ""]

NotAuthorizedError ==
    [kind |-> "action", view |-> "", location |-> <<>>,
     redirectedFrom |-> <<>>, success |-> FALSE, error |-> "Not authorized"]

LayoutResponded(c) ==
    inv[c].caller = "DashboardLayout" /\ Responded(c) /\ Resolved(c)

(***************************************************************************)
(* C14  (as stated) The dashboard layout redirects to the login page when  *)
(* the resolution is NO_SESSION, renders the not-authorized state on every *)
(* other denial (missing configuration, NOT_ALLOWED, NO_ADMIN_ROLE) and    *)
(* renders the protected content only when authorized.                     *)
(***************************************************************************)
C14_LayoutBranches ==
    \A c \in Calls :
        LayoutResponded(c) =>
            LET r == inv[c].result IN
            /\ (r.reason = "NO_SESSION") => (inv[c].response = LoginRedirect)
            /\ (~r.ok /\ r.reason # "NO_SESSION") => (inv[c].response = NotAuthorizedView)
            /\ (inv[c].response.view = "children") => r.ok

(***************************************************************************)
(* C14  (amended) The layout redirects to the login page when the          *)
(* resolution is NO_SESSION or missing configuration (isAuthenticated is   *)
(* false), renders the not-authorized state on NOT_ALLOWED and             *)
(* NO_ADMIN_ROLE, and renders the protected content only when authorized.  *)
(***************************************************************************)
C14_LayoutBranchesOnAuthenticated ==
    \A c \in Calls :
        LayoutResponded(c) =>
            LET r == inv[c].result IN
            /\ (r.reason \in {"NO_SESSION", "MISSING_ENV"})
                   => (inv[c].response = LoginRedirect)
            /\ (r.reason \in {"NOT_ALLOWED", "NO_ADMIN_ROLE"})
                   => (inv[c].response = NotAuthorizedView)
            /\ (inv[c].response.view = "children") <=> r.ok

\* with the anon key missing the layout redirects a signed-in user to /login
C14_Witness ==
    \E c \in Calls :
        /\ LayoutResponded(c)
        /\ ~inv[c].session.isNull
        /\ inv[c].result.reason = "MISSING_ENV"
        /\ inv[c].response.kind = "redirect"
        /\ inv[c].response.location = PathLogin

(***************************************************************************)
(* C15  Callers fail closed: when checkAdmin throws, a guarded server      *)
(* action returns an error result, has written nothing and never reaches   *)
(* its write.                                                              *)
(***************************************************************************)
C15_ActionsFailClosedOnThrow ==
    \A c \in Calls :
        Threw(c) =>
            /\ inv[c].writes = <<>>
            /\ Responded(c) => /\ inv[c].response.kind = "action"
                               /\ ~inv[c].response.success
                               /\ inv[c].response.error # ""

\* addAdminAction answered with its catch result after the admins query of
\* checkAdmin threw
C15_Witness ==
    \E c \in Calls :
        /\ Threw(c) /\ Responded(c)
        /\ inv[c].caller = "addAdminAction"
        /\ Queried(c, "user_roles")
        /\ inv[c].response.error = "Failed"
        /\ inv[c].writes = <<>>

(***************************************************************************)
(* C16  Every write through the service-role client happens only after     *)
(* checkAdmin, called in the same invocation, returned ok with an admin.   *)
(***************************************************************************)
C16_WritesOnlyAfterCheckAdmin ==
    \A c \in Calls :
        (inv[c].writes # <<>>)
        => /\ Resolved(c)
           /\ inv[c].result.ok
           /\ ~inv[c].result.admin.isNull

(***************************************************************************)
(* C17  Admin management and settings changes succeed only for a principal *)
(* whose resolved role is super_admin.                                     *)
(***************************************************************************)
C17_SuperAdminOnly ==
    \A c \in Calls :
        ( /\ Responded(c)
          /\ inv[c].caller \in
                 {"addAdminAction", "updateAdminRoleAction", "deleteAdminAction",
                  "updateSettingAction", "createSettingAction", "deleteSettingAction"}
          /\ inv[c].response.success )
        => /\ inv[c].result.ok
           /\ inv[c].result.admin.role = "super_admin"

(***************************************************************************)
(* C18  (as stated) Every request without a session for a path other than  *)
(* /login is redirected by the middleware to /login with redirectedFrom    *)
(* set to the path, and is never passed through.                           *)
(***************************************************************************)
MiddlewareResponded(c) == inv[c].caller = "middleware" /\ Responded(c)

ProtectedPathnames == {PathRoot, PathOrders}

C19_ReasonNotRevealed ==
    \A c \in Calls :
        (Responded(c) /\ inv[c].result.reason \in {"NOT_ALLOWED", "NO_ADMIN_ROLE"})
        => /\ (inv[c].caller = "DashboardLayout") => (inv[c].response = NotAuthorizedView)
           /\ (inv[c].caller \in GuardedActions) => (inv[c].response = NotAuthorizedError)

\* an action denied at the allowlist gate answers like one denied for its role
C19_Witness ==
    \E c \in Calls :
        /\ Responded(c)
        /\ inv[c].caller = "updateOrderAction"
        /\ inv[c].result.reason = "NOT_ALLOWED"
        /\ inv[c].response.error = "Not authorized"

(***************************************************************************)
(* Two successive checkAdmin calls of one request                          *)
(***************************************************************************)
\* the user that supabase.auth.getUser() yields when the same cookies are
\* read again by the next call
RepeatUser_TokenConsumed(session) == NullUser
RepeatUser(session) == session

\* checkAdmin is called again with the same session; the caller keeps the
\* first result
CallAgain(c) ==
    /\ inv[c].pc = "done"
    /\ inv[c].caller = ""
    /\ ~inv[c].previous.taken
    /\ inv' = [inv EXCEPT ![c] =
                  [IdleCall EXCEPT
                      !.pc = "getClient",
                      !.session = RepeatUser(inv[c].session),
                      !.changed = inv[c].changed,
                      !.previous =
                          [taken |-> TRUE, result |-> inv[c].result,
                           lookupError |->
                               \/ inv[c].userRoleError # NoError
                               \/ inv[c].adminError # NoError]]]
    /\ UNCHANGED <<coupons, env, resolver, allowedEmails, user_roles, admins>>

\* an admin action of another request changes the admins table between the
\* two calls
AdminWriteBetween(c) ==
    /\ inv[c].pc = "done"
    /\ inv[c].caller = ""
    /\ ~inv[c].previous.taken
    /\ ~inv[c].changed
    /\ \E a \in AdminActions, input \in ActionInputs :
           /\ input.valid
           /\ admins' = AdminsAfter(a, input, admins)
           /\ admins' # admins
    /\ inv' = [inv EXCEPT ![c].changed = TRUE]
    /\ UNCHANGED <<coupons, env, resolver, allowedEmails, user_roles>>

\* the first of the two calls
BeginFirst(c) == \E s \in AppSessions : Start(c, "", s, <<>>, "getClient")

NextRepeat ==
    \E c \in Calls :
        \/ BeginFirst(c)
        \/ GetClient(c)
        \/ GetUser(c)
        \/ QueryUserRoles(c)
        \/ QueryAdmins(c)
        \/ AdminWriteBetween(c)
        \/ CallAgain(c)
        \/ Return(c)

\* both generations and both stores, on a deployment whose URL is configured
InitRepeat ==
    /\ Init
    /\ env.url = "set"
    /\ env.ADMIN_ALLOWED_EMAILS \in {<<>>, EmailA, EmailA \o <<",">> \o EmailB}

SpecRepeat == InitRepeat /\ [][NextRepeat]_vars

(***************************************************************************)
(* C20  Idempotence: two successive checkAdmin calls for the same session, *)
(* with no change to the role stores, the allowlist or the configuration   *)
(* in between and with lookups that were answered without error, return    *)
(* identical results (ok, admin id/email/role, isAuthenticated, reason).    *)
(***************************************************************************)
SecondCallDone(c) == Done(c) /\ inv[c].previous.taken

ResolutionSteps == {"getClient", "getUser", "queryUserRoles", "queryAdmins"}

C21_ReadOnly ==
    [][ \A c \in Calls :
            (inv[c].pc \in ResolutionSteps /\ inv'[c] # inv[c])
            => /\ user_roles' = user_roles
               /\ admins' = admins
               /\ allowedEmails' = allowedEmails ]_vars

\* a bootstrap grant has been returned and neither store holds a record of
\* the principal
C21_Witness ==
    \E c \in Calls :
        /\ Done(c)
        /\ Queried(c, "admins")
        /\ inv[c].adminRow.isNull /\ NoLookupError(c)
        /\ inv[c].result.ok
        /\ inv[c].result.admin.role = "super_admin"
        /\ user_roles[PrincipalId(c)].isNull
        /\ admins[PrincipalId(c)].isNull

(***************************************************************************)
(* C24  Lookup ordering: every two-store execution makes at most one       *)
(* lookup per role store; the primary lookup happens only after the        *)
(* session check and the allowlist gate have passed; the legacy lookup     *)
(* happens only after the primary lookup has returned, and only when the   *)
(* primary lookup did not decide the outcome, i.e. found no record.        *)
(***************************************************************************)
LookupCount(c, table) ==
    Cardinality({i \in 1..Len(inv[c].lookups) : inv[c].lookups[i] = table})

LookupPosition(c, table) ==
    CHOOSE i \in 1..Len(inv[c].lookups) : inv[c].lookups[i] = table

Generations == Resolvers \cup {"role_default"}

InitGenerations ==
    /\ env \in [url : EnvStrings, anon : EnvStrings,
                ADMIN_ALLOWED_EMAILS : AllowedEmailsEnvValues,
                ADMIN_DEBUG : {""}]
    /\ resolver \in Generations
    /\ allowedEmails = ParseAllowedEmails(env.ADMIN_ALLOWED_EMAILS)
    /\ user_roles \in Stores
    /\ admins \in Stores
    /\ RecordCount(user_roles) + RecordCount(admins) <= MaxRecords
    /\ coupons = NoUsage
    /\ inv = [c \in Calls |-> IdleCall]

SpecGenerations == InitGenerations /\ [][Next]_vars

(***************************************************************************)
(* C28  Every Authorized result carries a role of the allowed-role set     *)
(* {super_admin, admin}, the id of the session principal and that          *)
(* principal's lowercased e-mail.                                          *)
(***************************************************************************)
C28_AuthorizedRoleAllowed ==
    \A c \in Calls :
        (Done(c) /\ inv[c].result.ok)
        => /\ ~inv[c].result.admin.isNull
           /\ inv[c].result.admin.role \in AllowedRoleSet
           /\ inv[c].result.admin.id = PrincipalId(c)
           /\ inv[c].result.admin.email = PrincipalEmail(c)

(***************************************************************************)
(* The two-store generation and the single-store generation on one input   *)
(***************************************************************************)
\* the same session is resolved by the single-store generation after the
\* two-store generation has returned
CallSingleStore(c) ==
    /\ inv[c].pc = "done"
    /\ inv[c].caller = ""
    /\ ~inv[c].previous.taken
    /\ resolver = "two_store"
    /\ resolver' = "single_store"
    /\ inv' = [inv EXCEPT ![c] =
                  [IdleCall EXCEPT
                      !.pc = "getClient",
                      !.session = inv[c].session,
                      !.previous =
                          [taken |-> TRUE, result |-> inv[c].result,
                           lookupError |->
                               \/ inv[c].userRoleError # NoError
                               \/ inv[c].adminError # NoError]]]
    /\ UNCHANGED <<coupons, env, allowedEmails, user_roles, admins>>

NextPair ==
    \E c \in Calls :
        \/ BeginFirst(c)
        \/ GetClient(c)
        \/ GetUser(c)
        \/ QueryUserRoles(c)
        \/ QueryAdmins(c)
        \/ CallSingleStore(c)
        \/ Return(c)

InitPair == Init /\ resolver = "two_store"

SpecPair == InitPair /\ [][NextPair]_vars

(***************************************************************************)
(* C29  The single-store and the two-store resolver agree on               *)
(* migration-free inputs: when the primary store holds no record for the   *)
(* principal, both return the same ok, admin, isAuthenticated and reason   *)
(* for the same session, allowlist and legacy-store content.               *)
(***************************************************************************)
C29_GenerationsAgree ==
    \A c \in Calls :
        ( /\ SecondCallDone(c)
          /\ resolver = "single_store"
          /\ ~inv[c].previous.lookupError
          /\ NoLookupError(c)
          /\ Authenticated(c) => user_roles[PrincipalId(c)].isNull )
        => inv[c].result = inv[c].previous.result

(***************************************************************************)
(* checkAdmin as a function of what the stores hold                        *)
(***************************************************************************)
\* the result of a run whose two lookups read the stores ur and ad without
\* error
ResolveOn(gen, e, list, u, ur, ad) ==
    IF EnvMissing(e) THEN Deny(FALSE, "MISSING_ENV")
    ELSE IF NoSession(u) THEN Deny(FALSE, "NO_SESSION")
    ELSE LET email == ToLowerCase(u.email)
             userRoleRow == SelectByUserId(ur, u.id)
             adminRow == SelectByUserId(ad, u.id)
         IN  IF AllowlistRejects(list, email) THEN Deny(TRUE, "NOT_ALLOWED")
             ELSE IF gen = "two_store" /\ RowWithRole(userRoleRow)
             THEN RoleDecision(u, email, userRoleRow.role)
             ELSE IF gen = "role_default"
             THEN Allow(u.id, email, RoleOrDefault(adminRow))
             ELSE IF \/ gen = "two_store" /\ RowWithRole(adminRow)
                     \/ gen = "single_store" /\ RowPresent(adminRow)
             THEN RoleDecision(u, email, adminRow.role)
             ELSE BootstrapDecision(list, u, email)

(***************************************************************************)
(* Interleaved executions of checkAdmin for one principal                  *)
(***************************************************************************)
\* what the start of an execution does to the locals of the executions in
\* flight: supabase, user and email are consts of the function body
OthersAtEntry_ModuleLevelEmail(rec) == [rec EXCEPT !.email = <<>>]
OthersAtEntry(rec) == rec

\* another request of the same principal arrives while earlier ones are
\* being resolved
BeginConcurrent(c) ==
    /\ inv[c].pc = "idle"
    /\ \E s \in AppSessions :
           /\ \A d \in Executions : inv[d].pc # "idle" => inv[d].session = s
           /\ inv' = [d \in Executions |->
                         IF d = c
                         THEN [IdleCall EXCEPT !.pc = "getClient", !.session = s]
                         ELSE OthersAtEntry(inv[d])]
    /\ UNCHANGED <<coupons, env, resolver, allowedEmails, user_roles, admins>>

NextConcurrent ==
    \E c \in Executions :
        \/ BeginConcurrent(c)
        \/ GetClient(c)
        \/ GetUser(c)
        \/ QueryUserRoles(c)
        \/ QueryAdmins(c)
        \/ Return(c)

InitConcurrent ==
    /\ env \in [url : {"set"}, anon : EnvStrings,
                ADMIN_ALLOWED_EMAILS : {<<>>, EmailA},
                ADMIN_DEBUG : {""}]
    /\ resolver \in Resolvers
    /\ allowedEmails = ParseAllowedEmails(env.ADMIN_ALLOWED_EMAILS)
    /\ user_roles \in Stores
    /\ admins \in Stores
    /\ RecordCount(user_roles) + RecordCount(admins) <= MaxRecords
    /\ coupons = NoUsage
    /\ inv = [c \in Executions |-> IdleCall]

SpecConcurrent == InitConcurrent /\ [][NextConcurrent]_vars

(***************************************************************************)
(* C22  Concurrent resolutions for the same principal are safe: when       *)
(* checkAdmin executions for one principal are interleaved and no writer   *)
(* changes the stores, each execution whose lookups were answered returns  *)
(* the result it would return if run alone.                                *)
(***************************************************************************)
C22_InterleavingSafe ==
    \A c \in Executions :
        (Done(c) /\ NoLookupError(c))
        => inv[c].result =
               ResolveOn(resolver, env, allowedEmails, inv[c].session,
                         user_roles, admins)

\* two executions of one allowlisted principal overlapped and both returned
\* the authorization the stores give
C22_Witness ==
    \E c, d \in Executions :
        /\ c # d
        /\ Done(c) /\ NoLookupError(c)
        /\ inv[c].result.ok
        /\ inv[d].pc = "queryAdmins"
        /\ inv[d].session = inv[c].session

(***************************************************************************)
(* Dashboard renders under every setting of the diagnostic flag            *)
(***************************************************************************)
DebugValues == {"", "1", "true"}

InitDebug ==
    /\ env \in [url : {"set"}, anon : EnvStrings,
                ADMIN_ALLOWED_EMAILS : {<<>>, EmailA},
                ADMIN_DEBUG : DebugValues]
    /\ resolver \in Generations
    /\ allowedEmails = ParseAllowedEmails(env.ADMIN_ALLOWED_EMAILS)
    /\ user_roles \in Stores
    /\ admins \in Stores
    /\ RecordCount(user_roles) + RecordCount(admins) <= MaxRecords
    /\ coupons = NoUsage
    /\ inv = [c \in Calls |-> IdleCall]

NextDebug ==
    \E c \in Calls :
        \/ BeginLayout(c)
        \/ GetClient(c)
        \/ GetUser(c)
        \/ QueryUserRoles(c)
        \/ QueryAdmins(c)
        \/ Throw(c)
        \/ LayoutRender(c)
        \/ Complete(c)

SpecDebug == InitDebug /\ [][NextDebug]_vars

(***************************************************************************)
(* C23  Diagnostic logging is off by default: unless the diagnostic flag   *)
(* is set to "1", no checkAdmin execution and no dashboard layout render   *)
(* emits a log record.                                                     *)
(***************************************************************************)
C23_LoggingOffByDefault ==
    \A c \in Calls : (env.ADMIN_DEBUG # "1") => (inv[c].logs = <<>>)

(***************************************************************************)
(* One execution of checkAdmin overlapped by writes to the two stores      *)
(***************************************************************************)
\* a store after one committed statement on the row of user u: an insert or
\* update to `row`, or a delete when row is NullRow
StoreAfterWrite(table, u, row) == [table EXCEPT ![u] = row]

\* the rows a statement can leave for user u under the CHECK constraint of
\* the role column
WritableRows(u) == {NullRow} \cup {Row(u, r) : r \in RoleOptions}

\* the execution starts; `instants` collects what resolving against the
\* stores gives at every instant from now to its return
BeginObserved(c) ==
    /\ \A d \in Calls : inv[d].pc = "idle"
    /\ \E s \in AppSessions :
           inv' = [inv EXCEPT ![c] =
                      [IdleCall EXCEPT
                          !.pc = "getClient",
                          !.session = s,
                          !.instants = {ResolveOn(resolver, env, allowedEmails, s,
                                                  user_roles, admins)}]]
    /\ UNCHANGED <<coupons, env, resolver, allowedEmails, user_roles, admins>>

Observe(c, ur, ad) ==
    inv' = [inv EXCEPT ![c].overlapped = @ + 1,
                       ![c].instants = @ \cup
                           {ResolveOn(resolver, env, allowedEmails, inv[c].session,
                                      ur, ad)}]

InFlight(c) == inv[c].pc \in {"getClient", "getUser", "queryUserRoles", "queryAdmins"}

\* a row of the principal is written in user_roles while the execution is
\* in flight (the table is managed outside the application, by super_admin)
WriteUserRoles(c) ==
    /\ InFlight(c)
    /\ ~inv[c].session.isNull
    /\ inv[c].overlapped < MaxWrites
    /\ \E row \in WritableRows(inv[c].session.id) :
           /\ row # user_roles[inv[c].session.id]
           /\ user_roles' = StoreAfterWrite(user_roles, inv[c].session.id, row)
           /\ Observe(c, user_roles', admins)
    /\ UNCHANGED <<coupons, env, resolver, allowedEmails, admins>>

\* a row of the principal is written in admins by an admin action of
\* another request while the execution is in flight
WriteAdmins(c) ==
    /\ InFlight(c)
    /\ ~inv[c].session.isNull
    /\ inv[c].overlapped < MaxWrites
    /\ \E row \in WritableRows(inv[c].session.id) :
           /\ row # admins[inv[c].session.id]
           /\ admins' = StoreAfterWrite(admins, inv[c].session.id, row)
           /\ Observe(c, user_roles, admins')
    /\ UNCHANGED <<coupons, env, resolver, allowedEmails, user_roles>>

NextWriters ==
    \E c \in Calls :
        \/ BeginObserved(c)
        \/ GetClient(c)
        \/ GetUser(c)
        \/ QueryUserRoles(c)
        \/ QueryAdmins(c)
        \/ WriteUserRoles(c)
        \/ WriteAdmins(c)
        \/ Return(c)

InitWriters ==
    /\ Init
    /\ env.url = "set" /\ env.anon = "set"
    /\ env.ADMIN_ALLOWED_EMAILS \in {<<>>, EmailA}

SpecWriters == InitWriters /\ [][NextWriters]_vars

(***************************************************************************)
(* C25  Snapshot consistency under concurrent writes: the result of an     *)
(* execution that overlaps with writes to the principal's records equals   *)
(* the result of resolving against the contents of both stores at some     *)
(* single instant between its start and its end.                           *)
(***************************************************************************)
C25_SnapshotConsistent ==
    \A c \in Calls :
        (Done(c) /\ NoLookupError(c)) => inv[c].result \in inv[c].instants

(***************************************************************************)
(* A browser that follows the redirects of the middleware and the layout   *)
(***************************************************************************)
\* the paths served by pages under app/(dashboard), which the layout wraps
DashboardPages == {PathRoot, PathOrders}

\* what the route behind the middleware renders when no layout guards it
RouteView(pathname) == IF IsPublicRoute(pathname) THEN "login" ELSE "route"

\* the browser requests a path with its session cookies
Navigate(c) ==
    \E s \in AppSessions, p \in Pathnames : Start(c, "browser", s, p, "middleware")

\* middleware(request): redirect, or hand the request to the route; a
\* dashboard page starts with the checkAdmin of its layout
NavMiddleware(c) ==
    /\ inv[c].caller = "browser"
    /\ inv[c].pc = "middleware"
    /\ LET r == Middleware(inv[c].session, inv[c].pathname)
       IN  IF r.kind = "redirect"
           THEN inv' = [inv EXCEPT ![c].pc = "redirected", ![c].response = r]
           ELSE IF inv[c].pathname \in DashboardPages
           THEN inv' = [inv EXCEPT ![c].pc = "getClient"]
           ELSE Respond(c, inv[c], Render(RouteView(inv[c].pathname)))
    /\ UNCHANGED <<coupons, env, resolver, allowedEmails, user_roles, admins>>

\* DashboardLayout after checkAdmin returned: redirect('/login') or a view
NavLayout(c) ==
    /\ inv[c].caller = "browser"
    /\ inv[c].pc = "done"
    /\ LET r == DashboardLayout(inv[c].result)
       IN  IF r.kind = "redirect"
           THEN inv' = [inv EXCEPT ![c].pc = "redirected", ![c].response = r]
           ELSE Respond(c, WithLayoutLog(inv[c]), r)
    /\ UNCHANGED <<coupons, env, resolver, allowedEmails, user_roles, admins>>

\* the browser requests the location of the redirect with the same cookies
FollowRedirect(c) ==
    /\ inv[c].caller = "browser"
    /\ inv[c].pc = "redirected"
    /\ inv' = [inv EXCEPT ![c] =
                  [IdleCall EXCEPT !.pc = "middleware",
                                   !.caller = "browser",
                                   !.session = inv[c].session,
                                   !.pathname = inv[c].response.location]]
    /\ UNCHANGED <<coupons, env, resolver, allowedEmails, user_roles, admins>>

NextNav ==
    \E c \in Calls :
        \/ Navigate(c)
        \/ NavMiddleware(c)
        \/ GetClient(c)
        \/ GetUser(c)
        \/ QueryUserRoles(c)
        \/ QueryAdmins(c)
        \/ NavLayout(c)
        \/ FollowRedirect(c)
        \/ Complete(c)

\* a deployment whose Supabase URL and anon key are configured, the only
\* one in which the middleware can build its client
InitNav ==
    /\ Init
    /\ env.url = "set" /\ env.anon = "set"
    /\ env.ADMIN_ALLOWED_EMAILS \in {<<>>, EmailA}

\* every request in flight is eventually served
SpecNav == InitNav /\ [][NextNav]_vars /\ WF_vars(NextNav)

(***************************************************************************)
(* C26  Redirect chains terminate: for every session state and every       *)
(* start path, following the redirects of the middleware and of the        *)
(* dashboard layout eventually reaches a rendered response.                *)
(***************************************************************************)
C26_RedirectChainsTerminate ==
    \A c \in Calls : (inv[c].caller = "browser") ~> Responded(c)

(***************************************************************************)
(* An admin action followed by a dashboard request of the user it revoked  *)
(***************************************************************************)
BeginAdminAction(c) ==
    \E s \in AppSessions, a \in AdminActions : Start(c, a, s, <<>>, "getClient")

\* after the action has answered, the revoked user opens a dashboard page
LaterVisit(c) ==
    /\ Responded(c)
    /\ inv[c].caller \in AdminActions
    /\ inv[c].response.success
    /\ inv[c].revoked # ""
    /\ \E s \in AppSessions :
           /\ ~s.isNull
           /\ s.id = inv[c].revoked
           /\ inv' = [inv EXCEPT ![c] =
                         [IdleCall EXCEPT !.pc = "getClient",
                                          !.caller = "DashboardLayout",
                                          !.session = s,
                                          !.revoked = inv[c].revoked]]
    /\ UNCHANGED <<coupons, env, resolver, allowedEmails, user_roles, admins>>

NextRevoke ==
    \E c \in Calls :
        \/ BeginAdminAction(c)
        \/ GetClient(c)
        \/ GetUser(c)
        \/ QueryUserRoles(c)
        \/ QueryAdmins(c)
        \/ EnsureAdminReturn(c)
        \/ ActionWrite(c)
        \/ LaterVisit(c)
        \/ LayoutRender(c)
        \/ Complete(c)

InitRevoke ==
    /\ Init
    /\ env.url = "set" /\ env.anon = "set"
    /\ env.ADMIN_ALLOWED_EMAILS \in {<<>>, EmailA}

SpecRevoke == InitRevoke /\ [][NextRevoke]_vars

(***************************************************************************)
(* C27  Revocation through admin management takes effect: after            *)
(* deleteAdminAction has removed P's admin record, or                      *)
(* updateAdminRoleAction has set it to a role outside the allowed-role     *)
(* set, a later checkAdmin for P returns Denied.                           *)
(***************************************************************************)
C27_RevocationTakesEffect ==
    \A c \in Calls :
        ( /\ inv[c].caller = "DashboardLayout"
          /\ inv[c].revoked # ""
          /\ Done(c) )
        => ~inv[c].result.ok

(***************************************************************************)
(* Interleaved executions of incrementCouponUsage: every execution runs   *)
(* once, and its awaits interleave with those of the others                *)
(***************************************************************************)
BeginIncrementConcurrent(c) ==
    /\ inv[c].pc = "idle"
    /\ \E code \in CodeInputs :
           inv' = [inv EXCEPT ![c] = [IdleCall EXCEPT !.pc = "write",
                                         !.caller = "incrementCouponUsage",
                                         !.code = code]]
    /\ UNCHANGED <<coupons, env, resolver, allowedEmails, user_roles, admins>>

NextCoupons ==
    \E c \in Executions :
        \/ BeginIncrementConcurrent(c)
        \/ IncrementCouponUsage(c)
        \/ CouponUpdate(c)
        \/ CouponSelect(c)
        \/ CouponWrite(c)

InitCoupons ==
    /\ InitConcurrent
    /\ env.anon = "set"
    /\ env.ADMIN_ALLOWED_EMAILS = <<>>
    /\ resolver = "two_store"
    /\ RecordCount(user_roles) + RecordCount(admins) = 0

SpecCoupons == InitCoupons /\ [][NextCoupons]_vars

\* the completed calls for the coupon: they returned { success: true }
CompletedFor(code) ==
    { c \in DOMAIN inv :
          /\ inv[c].caller = "incrementCouponUsage"
          /\ inv[c].pc = "responded"
          /\ inv[c].response.success
          /\ ToUpperCase(inv[c].code) = code }

\* no call for the coupon is under way
Quiescent(code) ==
    \A c \in DOMAIN inv :
        (inv[c].caller = "incrementCouponUsage" /\ ToUpperCase(inv[c].code) = code)
            => inv[c].pc = "responded"

(***************************************************************************)
(* C30  Coupon usage counting loses no increments: after n completed       *)
(* incrementCouponUsage calls for the same coupon code, in any             *)
(* interleaving, the coupon's used_count has increased by exactly n.       *)
(***************************************************************************)
C30_NoLostIncrement ==
    Quiescent(CouponCode)
        => coupons[CouponCode] = NoUsage[CouponCode] + Cardinality(CompletedFor(CouponCode))

====
